---- MODULE Spec2Model ----
(***************************************************************************)
(* Model of the summarization backend of smart-summary-app:                *)
(*   - ContextOptimizer (similarity cache, strategy selection)             *)
(*   - LangGraphSummaryService (blocking workflow analyze_input ->         *)
(*     optimize_context -> check_cache -> generate_summary)                *)
(*     and its streaming path summarize_stream                             *)
(*   - LLMService (summarize / summarize_stream), the pipeline of          *)
(*     SimplifiedSmartSummarizer behind it and its fallbacks               *)
(*   - the endpoints POST /summarize and POST /summarize/stream            *)
(*                                                                         *)
(* Units.  Similarity scores are float32 values (FAISS inner products of   *)
(* MiniLM embeddings); a score s is represented by the integer s * 2^24,   *)
(* which is exact for every float32 in [2^-1, 2].  Money is in             *)
(* micro-dollars (0.005 $ = 5000), confidence scores in hundredths.        *)
(***************************************************************************)
EXTENDS Integers, Sequences, FiniteSets, TLC

VARIABLES
    text_cache,      \* ContextOptimizer.text_cache: list of entries, oldest first
    index,           \* ContextOptimizer.index: the FAISS IndexFlatIP, one vector per add
    cached_similar,  \* ContextOptimizer._cached_similar (shared attribute)
    reqs,            \* the requests in flight, one record per request slot
    ops,             \* number of calls issued so far (bounded)
    last,            \* the last direct call on the ContextOptimizer and its result
    _simplified_smart_summarizer
                     \* the module's global summarizer: "None", or the api_key
                     \* the instance was built with

vars ==
    <<text_cache, index, cached_similar, reqs, ops, last,
      _simplified_smart_summarizer>>

----------------------------------------------------------------------------
(* Bounds of the model *)

MaxOps == 2         \* calls of the service entry points explored per behaviour
MaxCacheOps == 2    \* direct ContextOptimizer calls explored per behaviour
DupFill == 10       \* entries of the cache of one repeated text a behaviour may start from

(* Program constants *)

CacheLimit == 1000          \* if len(self.text_cache) > 1000
KeepCount == 800            \* self.text_cache[-800:]
TopK == 10                  \* min(10, len(self.text_cache))
TokenThreshold == 2000      \* context.estimated_tokens > 2000
BudgetThreshold == 5000     \* context.cost_budget > 0.005
ChunkSize == 300            \* chunk_size = 300
DefaultBudget == 10000      \* cost_budget: float = 0.01

ScoreUnit == 2^24           \* one unit of similarity, 1.0 as float32
DefaultThreshold == <<4, 5>>    \* threshold: float = 0.8, as a fraction
HitThreshold == <<19, 20>>      \* similarity > 0.95, as a fraction

Min(a, b) == IF a <= b THEN a ELSE b
SetMax(S) == CHOOSE x \in S : \A y \in S : y <= x

----------------------------------------------------------------------------
(* Texts.  A text is identified by a record [base, n]; what the code       *)
(* measures of a text (its characters around the edges, its token count,   *)
(* its word count, its embedding) is tabulated here, since tiktoken and    *)
(* the sentence model are outside the repository.                          *)

T(b) == [base |-> b, n |-> 0]
Filler(i) == [base |-> "F", n |-> i]

EmptyText == T("")
SpaceText == T("  ")
BlankTexts == {EmptyText, SpaceText}

\* short texts: A and texts at a given inner product from A
FamilyA == {T("A"), T("A_hi95"), T("A_lo95"), T("A_hi80"), T("A_lo80")}
\* long texts: L (many words), L_lo95 (close to L), G (one very long word)
LongTexts == {T("L"), T("L_lo95"), T("G")}
NamedTexts == FamilyA \cup LongTexts \cup {T("B")} \cup BlankTexts

\* The characters of a text, as far as str.strip() can tell them apart:
\* " " is a whitespace character, "w" stands for a run of other characters.
Chars(t) ==
    CASE t = EmptyText -> << >>
      [] t = SpaceText -> <<" ", " ">>
      [] OTHER -> <<"w">>

\* str.strip(): drop the leading and trailing whitespace
RECURSIVE LStrip(_)
LStrip(s) == IF s # << >> /\ Head(s) = " " THEN LStrip(Tail(s)) ELSE s
RECURSIVE RStrip(_)
RStrip(s) ==
    IF s # << >> /\ s[Len(s)] = " " THEN RStrip(SubSeq(s, 1, Len(s) - 1)) ELSE s
Strip(s) == RStrip(LStrip(s))

\* a blank test that does not strip: `not text`
IsBlank_untrimmed(t) == Chars(t) = << >>

\* `not text.strip()`
IsBlank(t) == Strip(Chars(t)) = << >>

\* len(self.tokenizer.encode(text))
count_tokens(t) ==
    CASE t = EmptyText -> 0
      [] t = SpaceText -> 1
      [] t \in FamilyA -> 12
      [] t = T("B") -> TokenThreshold
      [] t \in LongTexts -> TokenThreshold + 1
      [] OTHER -> 40

\* len(text.split())
WordCount(t) ==
    CASE t \in BlankTexts -> 0
      [] t \in FamilyA -> 9
      [] t = T("B") -> 5 * ChunkSize
      [] t = T("G") -> 1
      [] t \in LongTexts -> 2 * ChunkSize + 1
      [] OTHER -> 30

\* len(text.split('.'))
SentenceCount(t) ==
    CASE t \in BlankTexts -> 1
      [] t \in FamilyA -> 2
      [] t = T("G") -> 1
      [] OTHER -> 7

\* The float32 values next to a fraction p/q of 1.0 that is no float32 itself
\* (0.95 and 0.8 are none): the largest below and the smallest above.
F32Below(f) == (f[1] * ScoreUnit) \div f[2]
F32Above(f) == F32Below(f) + 1

\* Inner product of a text's embedding with the embedding of T("A") (resp.
\* T("L")): the level of the text.
Level(t) ==
    CASE t = T("A") -> ScoreUnit
      [] t = T("A_hi95") -> F32Above(HitThreshold)
      [] t = T("A_lo95") -> F32Below(HitThreshold)
      [] t = T("A_hi80") -> F32Above(DefaultThreshold)
      [] t = T("A_lo80") -> F32Below(DefaultThreshold)
      [] t = T("L") -> ScoreUnit
      [] t = T("L_lo95") -> F32Below(HitThreshold)
      [] OTHER -> ScoreUnit

SameFamily(a, b) ==
    \/ a \in FamilyA /\ b \in FamilyA
    \/ a \in {T("L"), T("L_lo95")} /\ b \in {T("L"), T("L_lo95")}

\* self.sentence_model.encode([text]): a unit vector, named by its text
encode(t) == [vec |-> t]

\* IndexFlatIP's score of two vectors: 1.0 for a vector with itself, the
\* product of the levels inside a family, 0.1 across families.
InnerProduct(e1, e2) ==
    LET a == e1.vec
        b == e2.vec
    IN  IF a = b THEN ScoreUnit
        ELSE IF SameFamily(a, b)
             THEN IF Level(a) = ScoreUnit THEN Level(b)
                  ELSE IF Level(b) = ScoreUnit THEN Level(a)
                  ELSE ((Level(a) \div 4096) * (Level(b) \div 4096))
             ELSE ScoreUnit \div 10

\* score >= p/q  and  score > p/q  for a float32 score
AtLeast(score, f) == f[2] * score >= f[1] * ScoreUnit
Above(score, f) == f[2] * score > f[1] * ScoreUnit

----------------------------------------------------------------------------
(* ContextOptimizer: text measures *)

Domains == <<"technical", "business", "academic", "news", "legal">>

\* sum(1 for keyword in keywords if keyword in text_lower), per domain
KeywordHits(t) ==
    CASE t \in {T("L"), T("L_lo95")} ->
            [d \in 1..Len(Domains) |-> IF Domains[d] = "business" THEN 2 ELSE 0]
      [] t = T("B") ->
            [d \in 1..Len(Domains) |-> IF Domains[d] \in {"academic", "legal"} THEN 1 ELSE 0]
      [] OTHER -> [d \in 1..Len(Domains) |-> 0]

\* max(domain_scores, key=domain_scores.get): the first domain, in the
\* dictionary's order, whose score is the highest
detect_domain(t) ==
    LET score == KeywordHits(t)
        best == SetMax({score[d] : d \in 1..Len(Domains)})
        first == CHOOSE d \in 1..Len(Domains) :
                    /\ score[d] = best
                    /\ \A e \in 1..Len(Domains) : score[e] = best => d <= e
    IN  IF Len(Domains) > 0 THEN Domains[first] ELSE "general"

\* analyze_text_complexity, in hundredths: min(1.0, (avg_word_length / 10 +
\* avg_sentence_length / 20) / 2), by the text's average word and sentence length
AvgWordLength(t) ==
    CASE t \in BlankTexts -> 0
      [] t = T("G") -> 9000
      [] OTHER -> 5
AvgSentenceLength(t) == WordCount(t) \div SentenceCount(t)
analyze_text_complexity(t) ==
    Min(100, (10 * AvgWordLength(t) + 5 * AvgSentenceLength(t)) \div 2)

\* SummaryContext as built by analyze_input and by summarize_stream
SummaryContext(t, budget) ==
    [text |-> t,
     estimated_tokens |-> count_tokens(t),
     complexity_score |-> analyze_text_complexity(t),
     domain |-> detect_domain(t),
     cost_budget |-> budget]

----------------------------------------------------------------------------
(* ContextOptimizer: the similarity cache *)

NegInf == 0 - ScoreUnit     \* the score FAISS reports for a missing neighbour

\* the scores of the vectors of the index against a query, by position
\* (concatenation makes TLC compute the sequence once)
Scores(idx, q) == [i \in 1..Len(idx) |-> InnerProduct(q, idx[i])] \o << >>

\* k times the answer FAISS gives for a neighbour that does not exist
RECURSIVE Padding(_)
Padding(k) ==
    IF k <= 0 THEN << >> ELSE <<[score |-> NegInf, idx |-> -1]>> \o Padding(k - 1)

\* the k best (score, position) pairs that come after the pair (v, p), in the
\* order: higher score first, equal scores in the order of insertion
RECURSIVE BestFirst(_, _, _, _, _)
BestFirst(sc, vals, k, v, p) ==
    IF k <= 0 THEN << >>
    ELSE IF \E i \in (p + 1)..Len(sc) : sc[i] = v
    THEN LET pos == CHOOSE i \in (p + 1)..Len(sc) :
                        sc[i] = v /\ \A j \in (p + 1)..(i - 1) : sc[j] # v
         IN  <<[score |-> v, idx |-> pos - 1]>> \o BestFirst(sc, vals, k - 1, v, pos)
    ELSE LET lower == {x \in vals : x < v} IN
         IF lower = {} THEN Padding(k)
         ELSE BestFirst(sc, vals, k, SetMax(lower), 0)

\* the first k positions in the order of insertion, whatever their scores
search_insertion_order(idx, q, k) ==
    [i \in 1..Min(k, Len(idx)) |-> [score |-> InnerProduct(q, idx[i]), idx |-> i - 1]]

\* self.index.search(query, k): the k best (score, position) pairs, best first,
\* positions counted from 0, padded with position -1 when the index holds
\* fewer than k vectors.
search(idx, q, k) ==
    LET sc == Scores(idx, q)
        vals == {sc[i] : i \in 1..Len(idx)}
    IN  IF vals = {} THEN Padding(k)
        ELSE BestFirst(sc, vals, k, SetMax(vals), 0)

\* Python's list[i] for i counted from 0, negative i counted from the end
PyItem(list, i) == IF i < 0 THEN list[Len(list) + i + 1] ELSE list[i + 1]

\* find_similar_texts without its guard for the empty cache
find_similar_texts_unguarded(cache, idx, text, threshold) ==
    LET hits == search(idx, encode(text), Min(TopK, Len(cache)))
        kept == SelectSeq(hits, LAMBDA h :
                    AtLeast(h.score, threshold) /\ h.idx < Len(cache))
    IN  [result |-> [i \in 1..Len(kept) |->
                        [text |-> PyItem(cache, kept[i].idx).text,
                         summary |-> PyItem(cache, kept[i].idx).summary,
                         similarity |-> kept[i].score,
                         strategy |-> PyItem(cache, kept[i].idx).strategy]],
         encoded |-> TRUE, searched |-> TRUE]

\* find_similar_texts(text, threshold): the result list, and whether the
\* embedding model and the index were consulted
find_similar_texts(cache, idx, text, threshold) ==
    IF cache = << >>
    THEN [result |-> << >>, encoded |-> FALSE, searched |-> FALSE]
    ELSE LET hits == search(idx, encode(text), Min(TopK, Len(cache)))
             kept == SelectSeq(hits, LAMBDA h :
                        AtLeast(h.score, threshold) /\ h.idx < Len(cache))
         IN  [result |-> [i \in 1..Len(kept) |->
                            [text |-> PyItem(cache, kept[i].idx).text,
                             summary |-> PyItem(cache, kept[i].idx).summary,
                             similarity |-> kept[i].score,
                             strategy |-> PyItem(cache, kept[i].idx).strategy]],
              encoded |-> TRUE, searched |-> TRUE]

\* list[-n:]
LastN(list, n) ==
    IF Len(list) <= n THEN list ELSE SubSeq(list, Len(list) - n + 1, Len(list))

\* list[:n]
FirstN(list, n) == SubSeq(list, 1, Min(n, Len(list)))

\* an eviction that keeps the oldest entries
Evicted_oldest(cache) == FirstN(cache, KeepCount)

\* the survivors of an eviction
Evicted(cache) == LastN(cache, KeepCount)

\* an index rebuilt from the survivors taken newest first
Rebuilt_reversed(cache) ==
    [i \in 1..Len(cache) |-> encode(cache[Len(cache) + 1 - i].text)]

\* the index rebuilt from the survivors
Rebuilt(cache) == [i \in 1..Len(cache) |-> encode(cache[i].text)]

\* add_to_cache(text, summary, strategy): the cache and the index afterwards
add_to_cache(cache, idx, text, summary, strategy) ==
    LET idx1 == Append(idx, encode(text))
        cache1 == Append(cache, [text |-> text, summary |-> summary,
                                 strategy |-> strategy])
    IN  IF Len(cache1) > CacheLimit
        THEN [text_cache |-> Evicted(cache1), index |-> Rebuilt(Evicted(cache1))]
        ELSE [text_cache |-> cache1, index |-> idx1]

----------------------------------------------------------------------------
(* ContextOptimizer: the prompt strategies.  A prompt is a record naming   *)
(* its instruction (kind), the text it carries, its few-shot examples and,  *)
(* for the chunk prompt, the sections it announces and the sections it has. *)

Prompt(kind, t, examples, announced, sections) ==
    [kind |-> kind, text |-> t, examples |-> examples,
     announced |-> announced, sections |-> sections]

EmptyPrompt == Prompt("", EmptyText, << >>, 0, 0)

\* tokens of the instruction wrapped around the text of a prompt
InstructionTokens(kind) ==
    CASE kind = "compress_all" -> 4
      [] kind = "compress_key" -> 6
      [] kind = "template" -> 14
      [] kind = "shallow_train" -> 10
      [] OTHER -> 0

\* self.count_tokens(optimized_prompt)
PromptTokens(p) ==
    InstructionTokens(p.kind) + count_tokens(p.text)
        + 20 * Len(p.examples)

OptimizationResult(prompt, tokens, confidence, cost, strategy) ==
    [optimized_prompt |-> prompt, expected_tokens |-> tokens,
     confidence_score |-> confidence, cost_estimate |-> cost,
     strategy_used |-> strategy]

\* tokens of the prompt built from the (at most 5) selected sentences
CompressedTokens(t) ==
    InstructionTokens("compress_key")
        + (count_tokens(t) * Min(5, SentenceCount(t))) \div SentenceCount(t)

_compress_strategy(context) ==
    IF SentenceCount(context.text) <= 3
    THEN OptimizationResult(
            Prompt("compress_all", context.text, << >>, 0, 0),
            count_tokens(context.text) \div 2, 90, 1000, "compress")
    ELSE LET p == Prompt("compress_key", context.text, << >>, 0, 0)
         IN  OptimizationResult(
                p, CompressedTokens(context.text) + 100, 80, 800, "compress")

_template_strategy(context) ==
    LET p == Prompt("template", context.text, << >>, 0, 0)
    IN  OptimizationResult(p, PromptTokens(p) + 150, 90, 1200, "template")

\* number of chunk_size-word windows of a text: len(range(0, len(words), chunk_size))
ChunkCount(words) == (words + ChunkSize - 1) \div ChunkSize

\* tokens of the first n words of a text, the tokens spread evenly over the words
TokensOfWords(t, n) == (count_tokens(t) * Min(n, WordCount(t))) \div WordCount(t)

_chunk_strategy(context) ==
    LET words == WordCount(context.text) IN
    IF words <= ChunkSize
    THEN _template_strategy(context)
    ELSE LET chunks == ChunkCount(words)
             used == Min(3, chunks)
             expected == TokensOfWords(context.text, used * ChunkSize) + 200
         IN  OptimizationResult(
                Prompt("chunk", context.text, << >>, chunks, used),
                expected, 85, expected * 2, "chunk")

\* _shallow_train_strategy reads self._cached_similar when the attribute exists
_shallow_train_strategy(context, attr) ==
    LET similar_texts == IF attr.set THEN attr.val ELSE << >> IN
    IF similar_texts # << >>
    THEN LET examples == FirstN(similar_texts, 2)
             p == Prompt("shallow_train", context.text,
                         [i \in 1..Len(examples) |->
                            [text |-> examples[i].text,
                             summary |-> examples[i].summary]], 0, 0)
         IN  OptimizationResult(p, PromptTokens(p) + 120, 95, 1500, "shallow_train")
    ELSE _template_strategy(context)

\* the value of self._cached_similar once assigned
Attr(list) == [set |-> TRUE, val |-> list]
NoAttr == [set |-> FALSE, val |-> << >>]

\* a cache-hit test that asks for a similarity of 1.0
IsCacheHit_exact(similar_texts) ==
    similar_texts # << >> /\ similar_texts[1].similarity >= ScoreUnit

\* `similar_texts and similar_texts[0]["similarity"] > 0.95`
IsCacheHit(similar_texts) ==
    similar_texts # << >> /\ Above(similar_texts[1].similarity, HitThreshold)

\* the choice with both comparisons off by one (>= for >)
ChooseStrategy_inclusive(context, similar_texts) ==
    IF context.estimated_tokens >= TokenThreshold
    THEN IF context.cost_budget >= BudgetThreshold
         THEN _chunk_strategy(context)
         ELSE _compress_strategy(context)
    ELSE IF similar_texts # << >>
         THEN _shallow_train_strategy(context, Attr(similar_texts))
         ELSE _template_strategy(context)

\* the strategy chosen for a text that is no cache hit
ChooseStrategy(context, similar_texts) ==
    IF context.estimated_tokens > TokenThreshold
    THEN IF context.cost_budget > BudgetThreshold
         THEN _chunk_strategy(context)
         ELSE _compress_strategy(context)
    ELSE IF similar_texts # << >>
         THEN _shallow_train_strategy(context, Attr(similar_texts))
         ELSE _template_strategy(context)

\* optimize_context(context): the OptimizationResult, the value left in
\* self._cached_similar, and what the lookup consulted
optimize_context(cache, idx, context) ==
    LET found == find_similar_texts(cache, idx, context.text, DefaultThreshold)
        similar_texts == found.result
    IN  [optimization |->
            IF IsCacheHit(similar_texts)
            THEN OptimizationResult(EmptyPrompt, 0, 100, 0, "cache_hit")
            ELSE ChooseStrategy(context, similar_texts),
         cached_similar |-> Attr(similar_texts),
         found |-> found]

NoFound == [result |-> << >>, encoded |-> FALSE, searched |-> FALSE]
NoOptimization == OptimizationResult(EmptyPrompt, 0, 0, 0, "")

----------------------------------------------------------------------------
(* Summaries and provider replies: sequences of words and whitespace *)

Sum1 == <<"Alpha", " ", "beta">>
Sum2 == <<"Gamma">>
Summaries == {Sum1, Sum2}

----------------------------------------------------------------------------
(* Requests.  Two request slots may be in flight together; a slot is a     *)
(* coroutine of the event loop, which runs from one await to the next      *)
(* without interruption.                                                   *)

Reqs == {"r1", "r2"}

\* provider replies: the text of the completion, or a failure
Reply1 == <<"Alpha", " ", "beta">>
Reply2 == <<" ", "Gamma", " ">>
Replies == {Reply1, Reply2}
ProviderError == "provider error"

NoContext == SummaryContext(EmptyText, 0)

NoResult ==
    [summary |-> << >>, cost |-> 0, model_used |-> "", tokens_used |-> 0,
     strategy |-> "", cached |-> FALSE]

Outcome(kind, exc, status, detail, result) ==
    [kind |-> kind, exc |-> exc, status |-> status, detail |-> detail,
     result |-> result]

NoOutcome == Outcome("none", "", 0, "", NoResult)

\* a request slot: the call's arguments, the workflow state dictionary (a key
\* that is absent has its has_ flag FALSE), the fragments yielded so far, the
\* outcome of the call, and what the call has done to the provider and cache
IdleReq ==
    [pc |-> "idle", service |-> "", text |-> EmptyText, cost_budget |-> 0,
     context |-> NoContext,
     has_optimization |-> FALSE, optimization |-> NoOptimization,
     has_cached |-> FALSE, cached |-> FALSE,
     has_summary |-> FALSE, summary |-> << >>,
     has_cost |-> FALSE, cost |-> 0,
     model |-> "", tokens_used |-> 0,
     has_error |-> FALSE, error |-> "",
     out |-> << >>,
     outcome |-> NoOutcome,
     provider_calls |-> 0, inserted |-> 0, generated |-> FALSE,
     failed |-> "", retried |-> 0, reply |-> << >>,
     provider |-> "", invoked |-> FALSE,
     validation |-> [pair |-> FALSE, valid |-> FALSE, message |-> ""],
     body |-> [has_max_length |-> FALSE, max_length |-> 0], max_length |-> 0,
     api_key |-> "", credential |-> "",
     lookup |-> << >>, prior |-> {}, prior_stream |-> {}]

\* self.model_config[model]["cost_per_token"], in micro-dollars
cost_per_token(model) ==
    CASE model = "gpt-3.5-turbo" -> 2
      [] model = "gpt-4" -> 60
      [] model = "gpt-4-turbo" -> 30

\* the model generate_summary and summarize_stream choose
ChooseModel(context) ==
    IF context.complexity_score > 70 /\ context.cost_budget > BudgetThreshold
    THEN "gpt-4-turbo"
    ELSE IF context.estimated_tokens > 1000 THEN "gpt-4"
    ELSE "gpt-3.5-turbo"

\* self.optimizer.count_tokens(summary): one token per word
SummaryTokens(summary) == Len(SelectSeq(summary, LAMBDA c : c # " "))

\* whether result.get("optimization", {}) answers .get(...): the mocked graph
\* of the tests returns a dict there, the workflow an OptimizationResult
\* dataclass, which has no such method
OptimizationHasGet == FALSE

\* an HTTPException whose str() is empty
StrHTTPException_empty(status_code, detail) == ""

\* str(e) of HTTPException(status_code=500, detail=...): "500: <detail>"
StrHTTPException(status_code, detail) == status_code \o ": " \o detail

\* the except clause of summarize: whatever is raised inside its try, its own
\* HTTPException included, ends as HTTPException(500) around str(e)
Raise500(message) ==
    Outcome("raised", "HTTPException", 500,
            "Summarization failed: " \o message, NoResult)

\* what summarize makes of the final workflow state
SummarizeResult(q) ==
    IF q.has_error
    THEN Raise500(StrHTTPException("500", q.error))
    ELSE IF q.has_optimization /\ ~OptimizationHasGet
    THEN Raise500("'OptimizationResult' object has no attribute 'get'")
    ELSE Outcome("returned", "", 200, "",
            [summary |-> q.summary,
             cost |-> IF q.has_cost THEN q.cost ELSE 0,
             model_used |-> IF q.model # "" THEN q.model ELSE "unknown",
             tokens_used |-> q.tokens_used,
             strategy |-> IF q.has_optimization
                          THEN q.optimization.strategy_used ELSE "unknown",
             cached |-> IF q.has_cached THEN q.cached ELSE FALSE])

GraphInputs ==
    ({EmptyText, SpaceText, T("A"), T("A_hi95")} \X {DefaultBudget})
        \cup {<<T("L"), BudgetThreshold>>}

\* the summaries that blocking requests for text t, already completed when a
\* new request starts, have obtained from the provider and put in the cache
Prior(t) ==
    {reqs[q].summary : q \in {p \in Reqs :
        /\ reqs[p].pc = "done" /\ reqs[p].service = "graph"
        /\ reqs[p].text = t /\ reqs[p].inserted = 1}}

\* the fragments of a stream put together
RECURSIVE Concat(_)
Concat(frags) ==
    IF frags = << >> THEN << >> ELSE Head(frags) \o Concat(Tail(frags))

\* the full summaries that streaming requests for text t, already completed
\* when a new request starts, have relayed from the provider
PriorStream(t) ==
    {Concat(reqs[q].out) : q \in {p \in Reqs :
        /\ reqs[p].pc = "done" /\ reqs[p].service = "graph_stream"
        /\ reqs[p].text = t /\ reqs[p].provider_calls = 1
        /\ reqs[p].outcome.kind = "streamed"}}

\* LangGraphSummaryService.summarize up to the first workflow node
Summarize(r, t, budget) ==
    /\ ops < MaxOps
    /\ reqs[r].pc = "idle"
    /\ ops' = ops + 1
    /\ reqs' = [reqs EXCEPT ![r] =
            IF IsBlank(t)
            THEN [IdleReq EXCEPT !.pc = "done", !.service = "graph", !.text = t,
                    !.cost_budget = budget,
                    !.outcome = Outcome("raised", "ValueError", 0,
                                        "Text cannot be empty", NoResult)]
            ELSE [IdleReq EXCEPT !.pc = "analyze_input", !.service = "graph",
                    !.text = t, !.cost_budget = budget, !.prior = Prior(t),
                    !.prior_stream = PriorStream(t)]]
    /\ UNCHANGED <<_simplified_smart_summarizer,
                    text_cache, index, cached_similar, last>>

\* workflow node analyze_input
analyze_input(r) ==
    /\ reqs[r].pc = "analyze_input"
    /\ reqs' = [reqs EXCEPT ![r].context =
                    SummaryContext(reqs[r].text, reqs[r].cost_budget),
                            ![r].pc = "optimize_context"]
    /\ UNCHANGED <<_simplified_smart_summarizer,
                    text_cache, index, cached_similar, ops, last>>

\* workflow node optimize_context
optimize_context_node(r) ==
    /\ reqs[r].pc = "optimize_context"
    /\ LET out == optimize_context(text_cache, index, reqs[r].context) IN
        /\ cached_similar' = out.cached_similar
        /\ reqs' = [reqs EXCEPT ![r].optimization = out.optimization,
                                ![r].has_optimization = TRUE,
                                ![r].lookup = out.found.result,
                                ![r].pc = "check_cache"]
    /\ UNCHANGED <<_simplified_smart_summarizer, text_cache, index, ops, last>>

\* workflow node check_cache and the routing after it (route_after_cache)
check_cache(r) ==
    /\ reqs[r].pc = "check_cache"
    /\ LET similar_texts == cached_similar.val IN
        reqs' = [reqs EXCEPT ![r] =
            IF reqs[r].optimization.strategy_used = "cache_hit"
                /\ similar_texts # << >>
            THEN [@ EXCEPT !.summary = similar_texts[1].summary,
                           !.has_summary = TRUE,
                           !.cached = TRUE, !.has_cached = TRUE,
                           !.cost = 0, !.has_cost = TRUE,
                           !.pc = "finish"]
            ELSE [@ EXCEPT !.cached = FALSE, !.has_cached = TRUE,
                           !.pc = "generate_summary"]]
    /\ UNCHANGED <<_simplified_smart_summarizer,
                    text_cache, index, cached_similar, ops, last>>

\* workflow node generate_summary up to `await llm.ainvoke(messages)`
generate_summary(r) ==
    /\ reqs[r].pc = "generate_summary"
    /\ reqs' = [reqs EXCEPT ![r] =
            IF reqs[r].has_cached /\ reqs[r].cached
            THEN [@ EXCEPT !.pc = "finish"]
            ELSE [@ EXCEPT !.model = ChooseModel(reqs[r].context),
                           !.generated = TRUE,
                           !.provider_calls = @ + 1,
                           !.pc = "ainvoke"]]
    /\ UNCHANGED <<_simplified_smart_summarizer,
                    text_cache, index, cached_similar, ops, last>>

\* generate_summary after the provider has answered
generate_summary_reply(r, reply) ==
    /\ reqs[r].pc = "ainvoke"
    /\ LET q == reqs[r]
           summary == Strip(reply)
           total_tokens == q.optimization.expected_tokens + SummaryTokens(summary)
           after == add_to_cache(text_cache, index, q.context.text, summary,
                                 q.optimization.strategy_used)
       IN  /\ text_cache' = after.text_cache
           /\ index' = after.index
           /\ reqs' = [reqs EXCEPT ![r] =
                [q EXCEPT !.summary = summary, !.has_summary = TRUE,
                          !.reply = reply,
                          !.cost = total_tokens * cost_per_token(q.model),
                          !.has_cost = TRUE,
                          !.tokens_used = total_tokens,
                          !.inserted = @ + 1,
                          !.pc = "finish"]]
    /\ UNCHANGED <<_simplified_smart_summarizer, cached_similar, ops, last>>

\* generate_summary when the provider call raises
generate_summary_fail(r) ==
    /\ reqs[r].pc = "ainvoke"
    /\ reqs' = [reqs EXCEPT ![r].error = ProviderError,
                            ![r].has_error = TRUE,
                            ![r].failed = "other",
                            ![r].pc = "finish"]
    /\ UNCHANGED <<_simplified_smart_summarizer,
                    text_cache, index, cached_similar, ops, last>>

\* LangGraphSummaryService.summarize after graph.ainvoke has returned
summarize_return(r) ==
    /\ reqs[r].pc = "finish"
    /\ reqs' = [reqs EXCEPT ![r].outcome = SummarizeResult(reqs[r]),
                            ![r].pc = "done"]
    /\ UNCHANGED <<_simplified_smart_summarizer,
                    text_cache, index, cached_similar, ops, last>>

\* the caller has taken the outcome: the slot is free for the next request
Release(r) ==
    /\ reqs[r].pc = "done"
    /\ ops < MaxOps
    /\ reqs' = [reqs EXCEPT ![r] = IdleReq]
    /\ UNCHANGED <<_simplified_smart_summarizer,
                    text_cache, index, cached_similar, ops, last>>

----------------------------------------------------------------------------
(* Direct calls on a ContextOptimizer (as its unit tests make them)        *)

AddInputs ==
    ({T("A"), T("A_hi95"), T("A_lo95"), T("A_hi80"), T("L")} \X {Sum1})
        \cup {<<T("A"), Sum2>>}
FindInputs ==
    {T("A"), T("A_hi80"), T("A_lo80"), T("L")} \X {DefaultThreshold, HitThreshold}
OptimizeInputs ==
    {T("A"), T("A_hi95"), T("A_lo95"), T("A_lo80"), T("B"), T("L"), T("L_lo95"), T("G")}
        \X {BudgetThreshold, BudgetThreshold + 1}

\* the summary of the i-th entry of a run of entries of one text: three words
\* that spell i in base 3, so that the entries differ
Words == <<"Alpha", "beta", "Gamma">>
DupSummary(i) ==
    <<Words[(i % 3) + 1], " ", Words[((i \div 3) % 3) + 1], " ",
      Words[((i \div 9) % 3) + 1]>>

\* a full cache: distinct texts first, then DupFill entries of one text
WarmCache ==
    [i \in 1..CacheLimit |->
        IF i <= CacheLimit - DupFill
        THEN [text |-> Filler(i), summary |-> Sum1, strategy |-> "template"]
        ELSE [text |-> T("A"), summary |-> DupSummary(CacheLimit - i),
              strategy |-> "template"]]

\* a cache filled by DupFill calls of add_to_cache with the same text
DupCache ==
    [i \in 1..DupFill |->
        [text |-> T("A"), summary |-> DupSummary(i), strategy |-> "template"]]

Call(op, t, threshold, budget, evicted, found, optimization) ==
    [op |-> op, text |-> t, threshold |-> threshold, budget |-> budget,
     evicted |-> evicted, found |-> found, optimization |-> optimization]

NoCall == Call("none", EmptyText, DefaultThreshold, 0, FALSE, NoFound, NoOptimization)

InitCache ==
    /\ text_cache \in {<< >>, WarmCache, DupCache}
    /\ index = [i \in 1..Len(text_cache) |-> encode(text_cache[i].text)]
    /\ cached_similar = NoAttr
    /\ reqs = [r \in Reqs |-> IdleReq]
    /\ ops = 0
    /\ last = NoCall
    /\ _simplified_smart_summarizer = "None"

AddToCacheCall(t, summary, strategy) ==
    /\ ops < MaxCacheOps
    /\ LET after == add_to_cache(text_cache, index, t, summary, strategy) IN
        /\ text_cache' = after.text_cache
        /\ index' = after.index
        /\ last' = Call("add", t, DefaultThreshold, 0,
                        Len(text_cache) + 1 > CacheLimit, NoFound, NoOptimization)
    /\ ops' = ops + 1
    /\ UNCHANGED <<_simplified_smart_summarizer, cached_similar, reqs>>

FindSimilarCall(t, threshold) ==
    /\ ops < MaxCacheOps
    /\ last' = Call("find", t, threshold, 0, FALSE,
                    find_similar_texts(text_cache, index, t, threshold),
                    NoOptimization)
    /\ ops' = ops + 1
    /\ UNCHANGED <<_simplified_smart_summarizer,
                    text_cache, index, cached_similar, reqs>>

OptimizeContextCall(t, budget) ==
    /\ ops < MaxCacheOps
    /\ LET out == optimize_context(text_cache, index, SummaryContext(t, budget)) IN
        /\ cached_similar' = out.cached_similar
        /\ last' = Call("optimize", t, DefaultThreshold, budget, FALSE,
                        out.found, out.optimization)
    /\ ops' = ops + 1
    /\ UNCHANGED <<_simplified_smart_summarizer, text_cache, index, reqs>>

\* texts of at most one window, of three windows and of five windows
ChunkInputs == {T("A"), T("L"), T("B")}

\* _chunk_strategy called with a context of its own
ChunkStrategyCall(t, budget) ==
    /\ ops < MaxCacheOps
    /\ last' = Call("chunk", t, DefaultThreshold, budget, FALSE, NoFound,
                    _chunk_strategy(SummaryContext(t, budget)))
    /\ ops' = ops + 1
    /\ UNCHANGED <<_simplified_smart_summarizer,
                    text_cache, index, cached_similar, reqs>>

NextCache ==
    \/ \E in \in AddInputs : AddToCacheCall(in[1], in[2], "template")
    \/ \E in \in FindInputs : FindSimilarCall(in[1], in[2])
    \/ \E in \in OptimizeInputs : OptimizeContextCall(in[1], in[2])
    \/ \E t \in ChunkInputs : ChunkStrategyCall(t, DefaultBudget)

SpecCache == InitCache /\ [][NextCache]_vars

\* sequences of add_to_cache calls alone
NextAdd == \E in \in AddInputs : AddToCacheCall(in[1], in[2], "template")

SpecAdd == InitCache /\ [][NextAdd]_vars

\* summary.split(): the words of a summary
Split(summary) == SelectSeq(summary, LAMBDA c : c # " ")

\* a cached summary sent as one fragment
CachedFragments_whole(summary) == <<summary>>

\* the fragments of a cached summary: `word + " "` for each word
CachedFragments(summary) ==
    [i \in 1..Len(Split(summary)) |-> <<Split(summary)[i], " ">>]

\* LangGraphSummaryService.summarize_stream up to its first suspension: the
\* lookup, the strategy and, on a cache hit, the fragments of the cached summary
SummarizeStream(r, t, budget) ==
    /\ ops < MaxOps
    /\ reqs[r].pc = "idle"
    /\ ops' = ops + 1
    /\ IF IsBlank(t)
       THEN /\ reqs' = [reqs EXCEPT ![r] =
                    [IdleReq EXCEPT !.pc = "done", !.service = "graph_stream",
                        !.text = t, !.cost_budget = budget,
                        !.outcome = Outcome("raised", "ValueError", 0,
                                            "Text cannot be empty", NoResult)]]
            /\ UNCHANGED cached_similar
       ELSE LET context == SummaryContext(t, budget)
                out == optimize_context(text_cache, index, context)
                similar_texts == out.cached_similar.val
                q == [IdleReq EXCEPT !.service = "graph_stream", !.text = t,
                        !.cost_budget = budget, !.context = context,
                        !.optimization = out.optimization,
                        !.has_optimization = TRUE,
                        !.lookup = out.found.result,
                        !.prior = Prior(t),
                        !.prior_stream = PriorStream(t)]
            IN  /\ cached_similar' = out.cached_similar
                /\ reqs' = [reqs EXCEPT ![r] =
                        IF out.optimization.strategy_used = "cache_hit"
                            /\ similar_texts # << >>
                        THEN [q EXCEPT !.pc = "done",
                                !.out = CachedFragments(similar_texts[1].summary),
                                !.outcome = Outcome("streamed", "", 200, "",
                                                    NoResult)]
                        ELSE [q EXCEPT !.pc = "astream",
                                !.model = ChooseModel(context),
                                !.provider_calls = @ + 1]]
    /\ UNCHANGED <<_simplified_smart_summarizer, text_cache, index, last>>

\* the provider streams its reply: the first k chunks arrive, and the stream
\* either ends after the last chunk or fails after the k-th
astream(r, reply, k) ==
    /\ reqs[r].pc = "astream"
    /\ k \in 0..Len(reply)
    /\ reqs' = [reqs EXCEPT ![r] =
            [@ EXCEPT !.out = [i \in 1..k |-> <<reply[i]>>],
                      !.pc = "done",
                      !.failed = IF k = Len(reply) THEN "" ELSE "other",
                      !.reply = reply,
                      !.outcome =
                        IF k = Len(reply)
                        THEN Outcome("streamed", "", 200, "", NoResult)
                        ELSE Outcome("raised", "HTTPException", 500,
                                     "Stream failed", NoResult)]]
    /\ UNCHANGED <<_simplified_smart_summarizer,
                    text_cache, index, cached_similar, ops, last>>

----------------------------------------------------------------------------
(* LLMService and the SimplifiedSmartSummarizer pipeline behind it.  Each   *)
(* stage of the pipeline is one provider call; a stage that fails falls     *)
(* back to a default and the pipeline goes on.                              *)

LLMInputs == {EmptyText, SpaceText, T("A")}

\* the ways a provider call fails
Failures == {"authentication", "rate_limit", "other"}

\* the event framing f"data: {fragment}\n\n"
Data(frag) == <<"data: ">> \o frag \o <<"\n\n">>

StageEvent(stage) == Data(<<"stage", stage>>)
Done == Data(<<"[DONE]">>)

\* the key points _extract_key_points returns
KeyPoints(ok) == IF ok THEN <<"Key", " ", "points">>
                       ELSE <<"Unable", " ", "to", " ", "extract">>

\* the word fragments of summarize_stream: a space after every word but the last
WordFragments(summary) ==
    LET words == Split(summary) IN
    [i \in 1..Len(words) |->
        IF i < Len(words) THEN Data(<<words[i], " ">>) ELSE Data(<<words[i]>>)]

\* the request after the answer `res` of a provider call: its first failure
\* is kept
Answered(q, res) ==
    IF res \in Failures /\ q.failed = "" THEN [q EXCEPT !.failed = res] ELSE q

\* the request issues one more provider call
Calling(q) ==
    [q EXCEPT !.provider_calls = @ + 1,
              !.retried = IF q.failed # "" THEN @ + 1 ELSE @]

\* a request without an api_key, and the api_keys requests supply
NoKey == ""
Keys == {"k1", "k2"}

\* the key of the client _get_client returns: the request's api_key, or the
\* client of the environment's OPENAI_API_KEY
_get_client(api_key) == IF api_key # NoKey THEN api_key ELSE "env"

\* the key of SimplifiedSmartSummarizer(api_key): api_key or the environment's
SimplifiedSmartSummarizer(api_key) ==
    IF api_key # NoKey THEN api_key ELSE "env"

\* the key of the summarizer get_simplified_smart_summarizer returns (and
\* leaves in the global): a new instance when there is none yet or an api_key
\* is given, the existing instance otherwise
get_simplified_smart_summarizer(global, api_key) ==
    IF global = "None" \/ api_key # NoKey
    THEN SimplifiedSmartSummarizer(api_key)
    ELSE global

\* LLMService.summarize_text / summarize_text_stream (through summarize and
\* summarize_stream, which fix the provider to OpenAI) up to the first
\* provider call.  built says whether get_simplified_smart_summarizer returns
\* a summarizer or raises; when it raises the fallback makes the call
LLMStart(t, stream, built, api_key, global) ==
    LET service == IF stream THEN "llm_stream" ELSE "llm"
        q == [IdleReq EXCEPT !.service = service, !.text = t,
                !.provider = "openai", !.invoked = TRUE, !.api_key = api_key]
    IN  IF IsBlank(t)
        THEN [q EXCEPT !.pc = "done",
                !.outcome = Outcome("raised", "ValueError", 0,
                                    "Text cannot be empty", NoResult)]
        ELSE IF ~built
        THEN [q EXCEPT !.provider_calls = 1,
                !.credential = _get_client(api_key),
                !.pc = IF stream THEN "_fallback_stream"
                                 ELSE "_fallback_summarize"]
        ELSE [q EXCEPT !.pc = "_analyze_text", !.provider_calls = 1,
                !.credential = get_simplified_smart_summarizer(global, api_key),
                !.out = IF stream THEN <<StageEvent("analyzing")>>
                                  ELSE << >>]

\* a direct call of LLMService.summarize or LLMService.summarize_stream
LLMSummarize(r, t, stream, built, api_key) ==
    /\ ops < MaxOps
    /\ reqs[r].pc = "idle"
    /\ ops' = ops + 1
    /\ reqs' = [reqs EXCEPT ![r] =
            LLMStart(t, stream, built, api_key, _simplified_smart_summarizer)]
    /\ _simplified_smart_summarizer' =
            IF ~IsBlank(t) /\ built
            THEN get_simplified_smart_summarizer(
                    _simplified_smart_summarizer, api_key)
            ELSE _simplified_smart_summarizer
    /\ UNCHANGED <<text_cache, index, cached_similar, last>>

\* _analyze_text has its answer: the analysis ("ok"), the default analysis
\* when the call failed, or ("incomplete") a JSON object that lacks a key the
\* pipeline reads
_analyze_text(r, res) ==
    /\ reqs[r].pc = "_analyze_text"
    /\ res \in Failures \cup {"ok", "incomplete"}
    /\ LET q == Answered(reqs[r], res) IN
       reqs' = [reqs EXCEPT ![r] =
            IF res # "incomplete"
            THEN [Calling(q) EXCEPT !.pc = "_extract_key_points",
                    !.out = IF q.service = "llm_stream"
                            THEN @ \o <<StageEvent("analysis_complete"),
                                        StageEvent("extracting")>>
                            ELSE @]
            ELSE IF q.service = "llm_stream"
            THEN [q EXCEPT !.pc = "done",
                    !.out = @ \o <<StageEvent("error"), Done>>,
                    !.outcome = Outcome("streamed", "", 200, "", NoResult)]
            ELSE [Calling(q) EXCEPT !.pc = "_fallback_summarize",
                    !.credential = _get_client(q.api_key)]]
    /\ UNCHANGED <<_simplified_smart_summarizer,
                    text_cache, index, cached_similar, ops, last>>

\* _extract_key_points has its answer ("ok") or has failed
_extract_key_points(r, res) ==
    /\ reqs[r].pc = "_extract_key_points"
    /\ res \in Failures \cup {"ok"}
    /\ LET q == Answered(reqs[r], res) IN
       reqs' = [reqs EXCEPT ![r] =
            [Calling(q) EXCEPT !.pc = "_create_final_summary",
                !.summary = KeyPoints(res = "ok"),
                !.out = IF q.service = "llm_stream"
                        THEN @ \o <<StageEvent("points_extracted"),
                                    StageEvent("summarizing")>>
                        ELSE @]]
    /\ UNCHANGED <<_simplified_smart_summarizer,
                    text_cache, index, cached_similar, ops, last>>

\* _create_final_summary has its answer, or has failed and joins the key points
_create_final_summary(r, res, reply) ==
    /\ reqs[r].pc = "_create_final_summary"
    /\ res \in Failures \cup {"ok"}
    /\ LET q == Answered(reqs[r], res)
           final_summary == IF res = "ok" THEN Strip(reply) ELSE q.summary
       IN reqs' = [reqs EXCEPT ![r] =
            IF q.service = "llm_stream"
            THEN [q EXCEPT !.pc = "done",
                    !.summary = final_summary, !.has_summary = TRUE,
                    !.reply = IF res = "ok" THEN reply ELSE << >>,
                    !.out = @ \o WordFragments(final_summary)
                              \o <<StageEvent("complete"), Done>>,
                    !.outcome = Outcome("streamed", "", 200, "", NoResult)]
            ELSE [q EXCEPT !.pc = "done",
                    !.summary = final_summary, !.has_summary = TRUE,
                    !.reply = IF res = "ok" THEN reply ELSE << >>,
                    !.outcome = Outcome("returned", "", 200, "",
                        [NoResult EXCEPT !.summary = final_summary])]]
    /\ UNCHANGED <<_simplified_smart_summarizer,
                    text_cache, index, cached_similar, ops, last>>

\* _fallback_summarize has its answer, or has failed
_fallback_summarize(r, res, reply) ==
    /\ reqs[r].pc = "_fallback_summarize"
    /\ res \in Failures \cup {"ok"}
    /\ LET q == Answered(reqs[r], res) IN
       reqs' = [reqs EXCEPT ![r] =
            IF res = "ok"
            THEN [q EXCEPT !.pc = "done",
                    !.summary = Strip(reply), !.has_summary = TRUE,
                    !.reply = reply,
                    !.outcome = Outcome("returned", "", 200, "",
                        [NoResult EXCEPT !.summary = Strip(reply)])]
            ELSE [q EXCEPT !.pc = "done",
                    !.outcome = Outcome("raised", "HTTPException", 500,
                                        "Summarization failed", NoResult)]]
    /\ UNCHANGED <<_simplified_smart_summarizer,
                    text_cache, index, cached_similar, ops, last>>

\* _fallback_stream: the first k chunks of the provider's reply arrive, each
\* framed as an event; the stream ends after the last chunk with [DONE], or
\* the provider fails after the k-th chunk
_fallback_stream(r, reply, k, res) ==
    /\ reqs[r].pc = "_fallback_stream"
    /\ k \in 0..Len(reply)
    /\ res \in Failures
    /\ LET q == IF k < Len(reply) THEN Answered(reqs[r], res) ELSE reqs[r]
           events == [i \in 1..k |-> Data(<<reply[i]>>)]
       IN reqs' = [reqs EXCEPT ![r] =
            IF k = Len(reply)
            THEN [q EXCEPT !.pc = "done",
                    !.out = events \o <<Done>>,
                    !.reply = reply,
                    !.outcome = Outcome("streamed", "", 200, "", NoResult)]
            ELSE [q EXCEPT !.pc = "done",
                    !.out = events,
                    !.outcome = Outcome("raised", "HTTPException", 500,
                                        "Streaming failed", NoResult)]]
    /\ UNCHANGED <<_simplified_smart_summarizer,
                    text_cache, index, cached_similar, ops, last>>

----------------------------------------------------------------------------
(* The endpoints POST /summarize and POST /summarize/stream of main.py,     *)
(* which call LLMService.summarize and LLMService.summarize_stream          *)

Providers == {"openai", "anthropic"}

NotSupported == "provider is not currently supported. Only OpenAI is available."

\* an endpoint called for a provider other than OpenAI: the provider check
\* raises HTTPException(400) inside the endpoint's try.  For OpenAI the
\* endpoint calls LLMService.summarize / summarize_stream (LLMSummarize) and
\* makes its response of the call's outcome
PostOtherProvider(r, t, provider, stream) ==
    /\ ops < MaxOps
    /\ reqs[r].pc = "idle"
    /\ provider # "openai"
    /\ ops' = ops + 1
    /\ reqs' = [reqs EXCEPT ![r] =
            [IdleReq EXCEPT !.pc = "done",
                !.service = IF stream THEN "llm_stream" ELSE "llm",
                !.text = t, !.provider = provider,
                !.outcome = Outcome("raised", "HTTPException", 400,
                                    NotSupported, NoResult)]]
    /\ UNCHANGED <<_simplified_smart_summarizer,
                    text_cache, index, cached_similar, last>>

\* whether SummaryResponse(summary=summary) validates: the model requires
\* original_length, summary_length and provider as well
SummaryResponseValidates == FALSE

\* lengths: whether the body carries original_length and summary_length, which
\* the endpoint never passes to SummaryResponse
NoBody == [summary |-> << >>, lengths |-> FALSE, events |-> << >>, ended |-> TRUE]

\* the response of POST /summarize to a request that has ended: every
\* exception raised inside the endpoint's try, its own HTTPException(400)
\* included, leaves as HTTPException(500, detail=str(e))
SummarizeResponse(q) ==
    IF q.outcome.kind = "returned" /\ SummaryResponseValidates
    THEN [status |-> 200, detail |-> "",
          body |-> [NoBody EXCEPT !.summary = q.outcome.result.summary]]
    ELSE IF q.outcome.kind = "returned"
    THEN [status |-> 500, detail |-> "validation error for SummaryResponse",
          body |-> NoBody]
    ELSE [status |-> 500, detail |-> q.outcome.detail, body |-> NoBody]

\* the response of POST /summarize/stream to a request that has ended: the
\* provider check fails inside the try; anything the service raises is raised
\* while the body is being sent, after the status line
StreamResponse(q) ==
    IF ~q.invoked
    THEN [status |-> 500, detail |-> q.outcome.detail, body |-> NoBody]
    ELSE [status |-> 200, detail |-> "",
          body |-> [summary |-> << >>, lengths |-> FALSE,
                    events |-> [i \in 1..Len(q.out) |-> Data(q.out[i])]
                        \o (IF q.outcome.kind = "streamed" THEN <<Done>>
                                                           ELSE << >>),
                    ended |-> q.outcome.kind = "streamed"]]

HttpResponse(q) ==
    IF q.service = "llm_stream" THEN StreamResponse(q) ELSE SummarizeResponse(q)

----------------------------------------------------------------------------
(* POST /validate-api-key and LLMService.validate_api_key *)

\* the ways the provider refuses the test call of a validation
ValidationFailures == Failures \cup {"permission_denied"}

\* what LLMService.validate_api_key returns: a bare bool, True when the test
\* call went through and False for every exception
validate_api_key_result(res) ==
    [pair |-> FALSE, valid |-> (res = "ok"), message |-> ""]

\* the endpoint up to the test call: for another provider it answers without
\* calling the service
ValidateApiKey(r, provider) ==
    /\ ops < MaxOps
    /\ reqs[r].pc = "idle"
    /\ ops' = ops + 1
    /\ reqs' = [reqs EXCEPT ![r] =
            IF provider # "openai"
            THEN [IdleReq EXCEPT !.pc = "done", !.service = "validate",
                    !.provider = provider,
                    !.outcome = Outcome("returned", "", 200, NotSupported,
                                        NoResult)]
            ELSE [IdleReq EXCEPT !.pc = "validate_api_key",
                    !.service = "validate", !.provider = provider,
                    !.invoked = TRUE, !.provider_calls = 1]]
    /\ UNCHANGED <<_simplified_smart_summarizer,
                    text_cache, index, cached_similar, last>>

\* LLMService.validate_api_key after the provider has answered the test call
validate_api_key(r, res) ==
    /\ reqs[r].pc = "validate_api_key"
    /\ res \in ValidationFailures \cup {"ok"}
    /\ reqs' = [reqs EXCEPT ![r] =
            [@ EXCEPT !.pc = "done",
                      !.failed = IF res = "ok" THEN "" ELSE res,
                      !.validation = validate_api_key_result(res),
                      !.outcome = Outcome("returned", "", 200, "", NoResult)]]
    /\ UNCHANGED <<_simplified_smart_summarizer,
                    text_cache, index, cached_similar, ops, last>>

\* the response of POST /validate-api-key: `is_valid, message = await
\* llm.validate_api_key(...)` needs a pair; anything else raises TypeError
\* inside the try, answered with status 500
ValidateResponse(q) ==
    IF ~q.invoked
    THEN [status |-> 200, valid |-> FALSE, message |-> NotSupported,
          provider |-> q.provider]
    ELSE IF q.validation.pair
    THEN [status |-> 200, valid |-> q.validation.valid,
          message |-> q.validation.message, provider |-> q.provider]
    ELSE [status |-> 500, valid |-> FALSE,
          message |-> "API key validation failed: cannot unpack non-iterable bool object",
          provider |-> q.provider]

----------------------------------------------------------------------------
(* The request model of the summarize endpoints *)

\* Field(default=200, ge=50, le=1000)
MaxLengthDefault == 200
MaxLengthGe == 50
MaxLengthLe == 1000

\* the max_length values of the request bodies tried
MaxLengths == {0 - 1, 0, 1, MaxLengthGe - 1, MaxLengthGe, MaxLengthDefault,
               MaxLengthLe, MaxLengthLe + 1}

\* request bodies, with and without a max_length
Bodies ==
    {[has_max_length |-> FALSE, max_length |-> 0]}
        \cup {[has_max_length |-> TRUE, max_length |-> m] : m \in MaxLengths}

\* SummaryRequest(text=..., max_length=...): the validated field value, or
\* a ValidationError when the value breaks ge or le
SummaryRequest(body) ==
    LET max_length == IF body.has_max_length THEN body.max_length
                      ELSE MaxLengthDefault
    IN  IF ~body.has_max_length
            \/ (max_length >= MaxLengthGe /\ max_length <= MaxLengthLe)
        THEN [valid |-> TRUE, max_length |-> max_length]
        ELSE [valid |-> FALSE, max_length |-> 0]

\* a request body parsed into the request model
ParseSummaryRequest(r, t, body) ==
    /\ ops < MaxOps
    /\ reqs[r].pc = "idle"
    /\ ops' = ops + 1
    /\ LET parsed == SummaryRequest(body) IN
       reqs' = [reqs EXCEPT ![r] =
            [IdleReq EXCEPT !.pc = "done", !.service = "request",
                !.text = t, !.body = body,
                !.max_length = parsed.max_length,
                !.outcome = IF parsed.valid
                            THEN Outcome("returned", "", 200, "", NoResult)
                            ELSE Outcome("raised", "ValidationError", 422,
                                         "max_length", NoResult)]]
    /\ UNCHANGED <<_simplified_smart_summarizer,
                    text_cache, index, cached_similar, last>>

InitModels ==
    /\ text_cache = << >>
    /\ index = << >>
    /\ cached_similar = NoAttr
    /\ reqs = [r \in Reqs |-> IdleReq]
    /\ ops = 0
    /\ last = NoCall
    /\ _simplified_smart_summarizer = "None"

NextModels ==
    \/ \E r \in Reqs, t \in {EmptyText, T("A")}, body \in Bodies :
            ParseSummaryRequest(r, t, body)
    \/ \E r \in Reqs : Release(r)

SpecModels == InitModels /\ [][NextModels]_vars

\* C25: the summarize request model accepts max_length exactly when
\* 1 <= max_length <= 1000 and uses 200 when max_length is omitted.
C25_MaxLengthRange ==
    \A r \in Reqs :
        (reqs[r].service = "request" /\ reqs[r].pc = "done") =>
            LET body == reqs[r].body IN
            IF body.has_max_length
            THEN /\ (reqs[r].outcome.kind = "returned")
                        <=> (1 <= body.max_length /\ body.max_length <= 1000)
                 /\ reqs[r].outcome.kind = "returned"
                        => reqs[r].max_length = body.max_length
            ELSE /\ reqs[r].outcome.kind = "returned"
                 /\ reqs[r].max_length = 200

\* C25, the state in which it fails: max_length = 1 rejected
C25_Witness ==
    \E r \in Reqs :
        /\ reqs[r].service = "request" /\ reqs[r].pc = "done"
        /\ reqs[r].body.has_max_length /\ reqs[r].body.max_length = 1
        /\ reqs[r].outcome.kind = "raised"
        /\ reqs[r].outcome.exc = "ValidationError"

----------------------------------------------------------------------------
(* The service: requests of both services, interleaved at their awaits *)

\* a cache that an earlier request has filled
SeedCache == add_to_cache(<< >>, << >>, T("A"), Sum2, "template")

\* a cache that two earlier requests, for unrelated texts, have filled
SeedCachePair ==
    add_to_cache(SeedCache.text_cache, SeedCache.index, T("L"), Sum1, "compress")

Init ==
    /\ \E c \in {[text_cache |-> << >>, index |-> << >>], SeedCache,
                 SeedCachePair} :
            text_cache = c.text_cache /\ index = c.index
    /\ cached_similar = NoAttr
    /\ reqs = [r \in Reqs |-> IdleReq]
    /\ ops = 0
    /\ last = NoCall
    /\ _simplified_smart_summarizer = "None"

Next ==
    \/ \E r \in Reqs, in \in GraphInputs : Summarize(r, in[1], in[2])
    \/ \E r \in Reqs : analyze_input(r)
    \/ \E r \in Reqs : optimize_context_node(r)
    \/ \E r \in Reqs : check_cache(r)
    \/ \E r \in Reqs : generate_summary(r)
    \/ \E r \in Reqs, reply \in Replies : generate_summary_reply(r, reply)
    \/ \E r \in Reqs : generate_summary_fail(r)
    \/ \E r \in Reqs : summarize_return(r)
    \/ \E r \in Reqs, in \in GraphInputs : SummarizeStream(r, in[1], in[2])
    \/ \E r \in Reqs, reply \in Replies, k \in 0..3 : astream(r, reply, k)
    \/ \E r \in Reqs, t \in LLMInputs, stream \in BOOLEAN, built \in BOOLEAN :
            LLMSummarize(r, t, stream, built, NoKey)
    \/ \E r \in Reqs, res \in Failures \cup {"ok", "incomplete"} :
            _analyze_text(r, res)
    \/ \E r \in Reqs, res \in Failures \cup {"ok"} : _extract_key_points(r, res)
    \/ \E r \in Reqs, res \in Failures \cup {"ok"}, reply \in Replies :
            _create_final_summary(r, res, reply)
    \/ \E r \in Reqs, res \in Failures \cup {"ok"}, reply \in Replies :
            _fallback_summarize(r, res, reply)
    \/ \E r \in Reqs, reply \in Replies, k \in 0..3, res \in Failures :
            _fallback_stream(r, reply, k, res)
    \/ \E r \in Reqs, stream \in BOOLEAN :
            PostOtherProvider(r, T("A"), "anthropic", stream)
    \/ \E r \in Reqs, provider \in Providers : ValidateApiKey(r, provider)
    \/ \E r \in Reqs, res \in ValidationFailures \cup {"ok"} :
            validate_api_key(r, res)
    \/ \E r \in Reqs : Release(r)

Spec == Init /\ [][Next]_vars

----------------------------------------------------------------------------
(* LLMService requests with and without an api_key of their own *)

NextKeys ==
    \/ \E r \in Reqs, stream \in BOOLEAN, built \in BOOLEAN,
          api_key \in Keys \cup {NoKey} :
            LLMSummarize(r, T("A"), stream, built, api_key)
    \/ \E r \in Reqs, res \in Failures \cup {"ok", "incomplete"} :
            _analyze_text(r, res)
    \/ \E r \in Reqs, res \in Failures \cup {"ok"} : _extract_key_points(r, res)
    \/ \E r \in Reqs, res \in Failures \cup {"ok"} :
            _create_final_summary(r, res, Reply1)
    \/ \E r \in Reqs, res \in Failures \cup {"ok"} :
            _fallback_summarize(r, res, Reply1)
    \/ \E r \in Reqs, k \in 0..3, res \in Failures :
            _fallback_stream(r, Reply1, k, res)
    \/ \E r \in Reqs : Release(r)

SpecKeys == InitModels /\ [][NextKeys]_vars

\* an LLMService request that has made a provider call
Served(r) ==
    /\ reqs[r].service \in {"llm", "llm_stream"}
    /\ reqs[r].provider_calls > 0

\* C27: an LLMService request that supplies no api_key is served with the
\* credential of the environment, never with a key an earlier request
\* supplied, and a request that supplies an api_key is served with that key.
C27_CredentialIsolation ==
    \A r \in Reqs :
        Served(r) =>
            reqs[r].credential =
                IF reqs[r].api_key = NoKey THEN "env" ELSE reqs[r].api_key

\* C27, the state in which it fails: a request without an api_key has
\* obtained its summary with the key of another request
C27_Witness ==
    \E r \in Reqs :
        /\ Served(r)
        /\ reqs[r].api_key = NoKey
        /\ reqs[r].credential \in Keys
        /\ reqs[r].pc = "done"
        /\ reqs[r].outcome.kind = "returned"
        /\ reqs[r].outcome.result.summary = Strip(Reply1)

----------------------------------------------------------------------------
(* Properties of the services, checked under Spec *)

\* the blocking requests that have run their workflow to the end
Finished(r) ==
    /\ reqs[r].service = "graph"
    /\ reqs[r].pc = "done"
    /\ reqs[r].has_optimization

\* C1: in the blocking path a request whose strategy is cache_hit returns the
\* cached summary with cost 0 and cached = true, without running
\* generate_summary, calling the provider or inserting into the cache; on a
\* miss it makes exactly one provider call, and when that call succeeds it
\* inserts once and returns.
C1_BlockingPath ==
    \A r \in Reqs : Finished(r) =>
        LET q == reqs[r] IN
        IF q.optimization.strategy_used = "cache_hit"
        THEN /\ q.outcome.kind = "returned"
             /\ q.outcome.result.summary = q.lookup[1].summary
             /\ q.outcome.result.cost = 0
             /\ q.outcome.result.cached
             /\ ~q.generated
             /\ q.provider_calls = 0
             /\ q.inserted = 0
        ELSE /\ q.generated
             /\ q.provider_calls = 1
             /\ ~q.has_error => (q.inserted = 1 /\ q.outcome.kind = "returned")

\* C1, the state in which it fails: a request classified cache_hit, served
\* from the cache without a provider call, whose call ends in HTTP 500
C1_Witness ==
    \E r \in Reqs :
        /\ Finished(r)
        /\ reqs[r].optimization.strategy_used = "cache_hit"
        /\ reqs[r].cached /\ reqs[r].provider_calls = 0
        /\ reqs[r].outcome.kind = "raised"
        /\ reqs[r].outcome.status = 500

\* C2: once summarize(t) has completed on a miss with provider reply s, a later
\* summarize(t) is classified cache_hit and returns s without a provider call.
C2_SecondCallHits ==
    \A r \in Reqs : (Finished(r) /\ reqs[r].prior # {}) =>
        /\ reqs[r].optimization.strategy_used = "cache_hit"
        /\ reqs[r].outcome.kind = "returned"
        /\ reqs[r].outcome.result.summary \in reqs[r].prior
        /\ reqs[r].provider_calls = 0

\* C2, the state in which it fails: the second call for the same text is a
\* cache hit holding the first call's summary, and ends in HTTP 500
C2_Witness ==
    \E r \in Reqs :
        /\ Finished(r) /\ reqs[r].prior # {}
        /\ reqs[r].optimization.strategy_used = "cache_hit"
        /\ reqs[r].summary \in reqs[r].prior
        /\ reqs[r].provider_calls = 0
        /\ reqs[r].outcome.kind = "raised"

\* C3: at each of the four entry points (summarize and summarize_stream of
\* LangGraphSummaryService and of LLMService) a call with an empty or
\* whitespace-only text ends at once with ValueError("Text cannot be empty");
\* the call has made no provider call, the cache and its index are as before
\* and no other request has moved.
C3_BlankInputRejected ==
    [][\A r \in Reqs :
        (reqs[r].pc = "idle" /\ reqs'[r].pc # "idle"
            /\ reqs'[r].service \in {"graph", "graph_stream", "llm", "llm_stream"}
            /\ reqs'[r].text \in BlankTexts) =>
            /\ reqs'[r].pc = "done"
            /\ reqs'[r].outcome.kind = "raised"
            /\ reqs'[r].outcome.exc = "ValueError"
            /\ reqs'[r].outcome.detail = "Text cannot be empty"
            /\ reqs'[r].provider_calls = 0
            /\ reqs'[r].inserted = 0
            /\ text_cache' = text_cache
            /\ index' = index
            /\ \A q \in Reqs \ {r} : reqs'[q] = reqs[q]]_vars

\* C3 witness: a whitespace-only text rejected while the cache holds an entry
\* and another request is waiting for the provider
C3_Witness ==
    \E r, q \in Reqs :
        /\ reqs[r].pc = "done"
        /\ reqs[r].text = SpaceText
        /\ reqs[r].outcome.exc = "ValueError"
        /\ reqs[r].provider_calls = 0
        /\ reqs[q].pc = "ainvoke"
        /\ text_cache # << >>

\* the requests of LangGraphSummaryService, blocking or streaming, that have
\* been classified
Classified(r) ==
    /\ reqs[r].service \in {"graph", "graph_stream"}
    /\ reqs[r].has_optimization

\* the streaming requests whose provider stream has run to its end
StreamedMiss(r) ==
    /\ reqs[r].service = "graph_stream"
    /\ reqs[r].pc = "done"
    /\ reqs[r].provider_calls = 1
    /\ reqs[r].outcome.kind = "streamed"

\* C11: when a streaming request has relayed a complete provider stream on a
\* cache miss, the cache holds an entry for its text whose summary is the
\* assembled fragments, and a request for the same text started after it is
\* classified cache_hit.
C11_StreamMissInserted ==
    /\ \A r \in Reqs : StreamedMiss(r) =>
        \E i \in 1..Len(text_cache) :
            /\ text_cache[i].text = reqs[r].text
            /\ text_cache[i].summary \in
                {Concat(reqs[r].out), Strip(Concat(reqs[r].out))}
    /\ \A r \in Reqs : (Classified(r) /\ reqs[r].prior_stream # {}) =>
        reqs[r].optimization.strategy_used = "cache_hit"

\* C11, the state in which it fails: a request for a text that a completed
\* stream has summarized finds an empty cache and goes to the provider again
C11_Witness ==
    \E r \in Reqs :
        /\ Classified(r)
        /\ reqs[r].prior_stream # {}
        /\ reqs[r].optimization.strategy_used # "cache_hit"
        /\ reqs[r].provider_calls = 1
        /\ text_cache = << >>

\* C12: a streaming request classified cache_hit ends at once, without a
\* provider call, and its fragments are the words of the cached summary (the
\* best entry of its own lookup), one word per fragment, in their order.
C12_CacheHitStream ==
    \A r \in Reqs :
        (/\ reqs[r].service = "graph_stream"
         /\ reqs[r].has_optimization
         /\ reqs[r].optimization.strategy_used = "cache_hit") =>
            LET q == reqs[r]
                words == Split(q.lookup[1].summary)
            IN  /\ q.pc = "done"
                /\ q.outcome.kind = "streamed"
                /\ q.provider_calls = 0
                /\ q.inserted = 0
                /\ Len(q.out) = Len(words)
                /\ \A i \in 1..Len(words) : Split(q.out[i]) = <<words[i]>>

\* C12 witness: a cached summary of two different words streamed on a hit
C12_Witness ==
    \E r \in Reqs :
        /\ reqs[r].service = "graph_stream"
        /\ reqs[r].optimization.strategy_used = "cache_hit"
        /\ reqs[r].pc = "done"
        /\ Len(reqs[r].out) = 2
        /\ reqs[r].out[1] # reqs[r].out[2]

\* the streaming requests that have ended after a provider call of theirs
\* had failed
FailedStream(r) ==
    /\ reqs[r].service \in {"graph_stream", "llm_stream"}
    /\ reqs[r].pc = "done"
    /\ reqs[r].failed # ""

\* C13: a stream in which a provider call has failed does not raise: it ends
\* with an error fragment (followed at most by the end marker), after the
\* fragments delivered before the failure.
C13_StreamEndsWithErrorFragment ==
    \A r \in Reqs : FailedStream(r) =>
        /\ reqs[r].outcome.kind = "streamed"
        /\ \E i \in 1..Len(reqs[r].out) :
            /\ reqs[r].out[i] = StageEvent("error")
            /\ \A j \in (i + 1)..Len(reqs[r].out) : reqs[r].out[j] = Done

\* C13, the state in which it fails: a chunk has been delivered, the provider
\* fails and the stream raises HTTP 500
C13_Witness ==
    \E r \in Reqs :
        /\ FailedStream(r)
        /\ reqs[r].out # << >>
        /\ reqs[r].outcome.kind = "raised"
        /\ reqs[r].outcome.status = 500

\* an event 'data: <fragment>\n\n' whose fragment holds no framing of its own
FramedOnce(e) ==
    /\ Len(e) >= 2
    /\ e[1] = "data: "
    /\ e[Len(e)] = "\n\n"
    /\ \A i \in 2..(Len(e) - 1) : e[i] \notin {"data: ", "\n\n"}

\* the calls of the streaming endpoint that reached the service and have ended
StreamServed(r) ==
    /\ reqs[r].service = "llm_stream"
    /\ reqs[r].invoked
    /\ reqs[r].pc = "done"

\* C14: the body of every POST /summarize/stream response is a sequence of
\* events 'data: <fragment>', each fragment framed once, and its last event,
\* and no other, is 'data: [DONE]'.
C14_EventStream ==
    \A r \in Reqs : StreamServed(r) =>
        LET events == StreamResponse(reqs[r]).body.events IN
        /\ events # << >>
        /\ \A i \in 1..Len(events) : FramedOnce(events[i])
        /\ \A i \in 1..Len(events) : (events[i] = Done) <=> (i = Len(events))

\* C14, the state in which it fails: a stream that succeeded, whose body
\* frames a word twice and carries the end marker twice, once framed twice
C14_Witness ==
    \E r \in Reqs :
        /\ StreamServed(r)
        /\ reqs[r].failed = ""
        /\ reqs[r].outcome.kind = "streamed"
        /\ LET events == StreamResponse(reqs[r]).body.events IN
            /\ \E i \in 1..Len(events) : events[i] = Data(Data(<<"Alpha", " ">>))
            /\ events[Len(events)] = Done
            /\ events[Len(events) - 1] = Data(Done)

\* a blocking request b and a streaming request s of the same service that
\* have ended without a provider failure, for the same text, with the same
\* lookup result in the cache and the same provider reply
SameRun(b, s) ==
    /\ reqs[b].pc = "done" /\ reqs[s].pc = "done"
    /\ \/ reqs[b].service = "graph" /\ reqs[s].service = "graph_stream"
       \/ reqs[b].service = "llm" /\ reqs[s].service = "llm_stream"
    /\ reqs[b].invoked = reqs[s].invoked
    /\ reqs[b].provider = reqs[s].provider
    /\ ~IsBlank(reqs[b].text)
    /\ reqs[b].text = reqs[s].text
    /\ reqs[b].lookup = reqs[s].lookup
    /\ reqs[b].reply = reqs[s].reply
    /\ reqs[b].provider_calls = reqs[s].provider_calls
    /\ reqs[b].failed = "" /\ reqs[s].failed = ""
    /\ reqs[s].outcome.kind = "streamed"
    /\ ~reqs[b].has_error

\* C15: for the same text, cache state and provider reply, the fragments of the
\* streaming path put together are the summary the blocking path returns.
C15_StreamEqualsBlocking ==
    \A b, s \in Reqs : SameRun(b, s) =>
        /\ reqs[b].outcome.kind = "returned"
        /\ Concat(reqs[s].out) = reqs[b].outcome.result.summary

\* C15, the state in which it fails: both requests hit the same cache entry,
\* and the fragments of the stream differ from the summary the blocking
\* workflow has found, which its call does not return either
C15_Witness ==
    \E b, s \in Reqs :
        /\ SameRun(b, s)
        /\ reqs[b].service = "graph"
        /\ reqs[b].optimization.strategy_used = "cache_hit"
        /\ reqs[s].optimization.strategy_used = "cache_hit"
        /\ reqs[b].cached
        /\ Concat(reqs[s].out) = reqs[b].summary \o <<" ">>
        /\ reqs[b].outcome.kind = "raised"

\* the provider reply as the chunks it is streamed in
Chunks(reply) == [i \in 1..Len(reply) |-> <<reply[i]>>]

\* C16: the fragments LLMService.summarize_stream yields are the chunks of the
\* provider's reply, in the provider's order, nothing added or wrapped.
C16_RelaysProviderChunks ==
    \A r \in Reqs :
        (/\ reqs[r].service = "llm_stream" /\ reqs[r].invoked
         /\ reqs[r].pc = "done"
         /\ reqs[r].outcome.kind = "streamed"
         /\ reqs[r].reply # << >>) =>
            reqs[r].out = Chunks(reqs[r].reply)

\* C16, the state in which it fails: the fallback stream has relayed the three
\* chunks of the reply, each wrapped as an event, and added an end marker
C16_Witness ==
    \E r \in Reqs :
        /\ reqs[r].service = "llm_stream" /\ reqs[r].invoked
        /\ reqs[r].pc = "done"
        /\ reqs[r].reply = Reply1
        /\ reqs[r].provider_calls = 1
        /\ reqs[r].out = <<Data(<<"Alpha">>), Data(<<" ">>), Data(<<"beta">>), Done>>

\* C17: a request issues no provider call after one of its provider calls has
\* failed, and a request in which a provider call has failed ends with the
\* failure reported: the call raises, or the stream carries an error fragment.
C17_NoCallAfterFailure ==
    \A r \in Reqs :
        /\ reqs[r].retried = 0
        /\ (reqs[r].pc = "done" /\ reqs[r].failed # "") =>
            \/ reqs[r].outcome.kind = "raised"
            \/ \E i \in 1..Len(reqs[r].out) : reqs[r].out[i] = StageEvent("error")

\* C17, the state in which it fails: the first provider call of a blocking
\* LLMService request failed, two more calls followed, and the call returned a
\* summary
C17_Witness ==
    \E r \in Reqs :
        /\ reqs[r].service = "llm"
        /\ reqs[r].pc = "done"
        /\ reqs[r].failed # ""
        /\ reqs[r].provider_calls = 3
        /\ reqs[r].retried = 2
        /\ reqs[r].outcome.kind = "returned"

\* C18: what check_cache decides for a request depends on that request's own
\* lookup alone: the request is served from the cache exactly when it was
\* classified cache_hit, and then with the summary of the best entry of its
\* own lookup.
C18_OwnLookupResult ==
    \A r \in Reqs : (Classified(r) /\ reqs[r].has_cached) =>
        /\ reqs[r].cached <=> (reqs[r].optimization.strategy_used = "cache_hit")
        /\ reqs[r].cached => reqs[r].summary = reqs[r].lookup[1].summary

\* C18, the state in which it fails: a request classified cache_hit is served
\* the summary of an entry that is not in its own lookup result, which another
\* request in flight has looked up
C18_Witness ==
    \E r, q \in Reqs :
        /\ r # q
        /\ Classified(r) /\ reqs[r].cached
        /\ \A i \in 1..Len(reqs[r].lookup) :
                reqs[r].lookup[i].summary # reqs[r].summary
        /\ Classified(q) /\ reqs[q].pc # "done"
        /\ reqs[q].lookup # << >>
        /\ reqs[q].lookup[1].summary = reqs[r].summary

\* the calls of POST /summarize that reached the service and have ended
SummarizeServed(r) ==
    /\ reqs[r].service = "llm"
    /\ reqs[r].invoked
    /\ reqs[r].pc = "done"

\* C19: POST /summarize answers a provider authentication failure with status
\* 401 and a rate-limit failure with 429, and answers 500 for neither.
C19_FailureStatus ==
    \A r \in Reqs : SummarizeServed(r) =>
        LET status == SummarizeResponse(reqs[r]).status IN
        /\ reqs[r].failed = "authentication" => status = 401
        /\ reqs[r].failed = "rate_limit" => status = 429
        /\ status = 500 => reqs[r].failed \notin {"authentication", "rate_limit"}

\* C19, the state in which it fails: the provider has rejected the key in the
\* one call of the fallback, the service has raised and the response is 500
C19_Witness ==
    \E r \in Reqs :
        /\ SummarizeServed(r)
        /\ reqs[r].failed = "authentication"
        /\ reqs[r].provider_calls = 1
        /\ reqs[r].outcome.kind = "raised"
        /\ SummarizeResponse(reqs[r]).status = 500

\* C20: a request to POST /summarize or POST /summarize/stream that names a
\* provider other than OpenAI is answered with status 400 and the 'not
\* currently supported' detail, and the service is not called for it.
C20_OtherProviderRejected ==
    \A r \in Reqs :
        (reqs[r].pc = "done" /\ reqs[r].provider \in Providers \ {"openai"}) =>
            /\ HttpResponse(reqs[r]).status = 400
            /\ HttpResponse(reqs[r]).detail = NotSupported
            /\ ~reqs[r].invoked
            /\ reqs[r].provider_calls = 0

\* C20, the state in which it fails: a streaming request for another provider,
\* rejected without a call of the service, answered with status 500
C20_Witness ==
    \E r \in Reqs :
        /\ reqs[r].pc = "done"
        /\ reqs[r].provider = "anthropic"
        /\ reqs[r].service = "llm_stream"
        /\ ~reqs[r].invoked
        /\ reqs[r].outcome.status = 400
        /\ HttpResponse(reqs[r]).status = 500

\* C21: when the service returns a summary for a POST /summarize request, the
\* response has status 200 and its body carries that summary with
\* original_length and summary_length.
C21_SuccessIsAnswered200 ==
    \A r \in Reqs :
        (SummarizeServed(r) /\ reqs[r].outcome.kind = "returned") =>
            LET response == SummarizeResponse(reqs[r]) IN
            /\ response.status = 200
            /\ response.body.summary = reqs[r].outcome.result.summary
            /\ response.body.lengths

\* C21, the state in which it fails: every provider call succeeded, the service
\* returned the summary and the response is an error
C21_Witness ==
    \E r \in Reqs :
        /\ SummarizeServed(r)
        /\ reqs[r].failed = ""
        /\ reqs[r].provider_calls = 3
        /\ reqs[r].outcome.kind = "returned"
        /\ reqs[r].outcome.result.summary = Sum1
        /\ SummarizeResponse(reqs[r]).status = 500

\* the message claimed for each outcome of a validation
ValidationMessage(failed) ==
    CASE failed = "" -> "API key is valid"
      [] failed = "authentication" -> "Invalid API key"
      [] failed = "rate_limit" -> "Rate limit exceeded"
      [] failed = "permission_denied" -> "Permission denied"
      [] OTHER -> "API key validation failed"

\* C22: LLMService.validate_api_key returns, without raising, a pair (valid,
\* message): valid exactly when the provider accepted the key, with the message
\* of the outcome; POST /validate-api-key answers 200 with that pair.
C22_ValidationPair ==
    \A r \in Reqs :
        (reqs[r].service = "validate" /\ reqs[r].invoked /\ reqs[r].pc = "done") =>
            LET q == reqs[r] IN
            /\ q.outcome.kind = "returned"
            /\ q.validation.pair
            /\ q.validation.valid <=> (q.failed = "")
            /\ q.validation.message = ValidationMessage(q.failed)
            /\ ValidateResponse(q).status = 200
            /\ ValidateResponse(q).valid = q.validation.valid
            /\ ValidateResponse(q).message = q.validation.message

\* C22, the state in which it fails: the provider accepted the key, the service
\* returned True alone and the endpoint answers 500
C22_Witness ==
    \E r \in Reqs :
        /\ reqs[r].service = "validate" /\ reqs[r].invoked
        /\ reqs[r].pc = "done"
        /\ reqs[r].failed = ""
        /\ reqs[r].validation.valid
        /\ ~reqs[r].validation.pair
        /\ ValidateResponse(reqs[r]).status = 500

\* a request whose text has been classified by analyze_input
Analyzed(r) ==
    /\ reqs[r].text \notin BlankTexts
    /\ reqs[r].context = SummaryContext(reqs[r].text, reqs[r].cost_budget)

\* C23: detect_domain returns the domain with the highest keyword-match count,
\* the first such domain in the enumeration order on a tie, and "general" when
\* every domain's count is zero.
C23_DomainByKeywordCount ==
    \A r \in Reqs :
        Analyzed(r) =>
            LET score == KeywordHits(reqs[r].text)
                domain == reqs[r].context.domain
                ds == 1..Len(Domains)
            IN  IF \A d \in ds : score[d] = 0
                THEN domain = "general"
                ELSE \E d \in ds :
                        /\ domain = Domains[d]
                        /\ \A e \in ds : score[e] <= score[d]
                        /\ \A e \in ds : score[e] = score[d] => d <= e

\* C23, the state in which it fails: a text without any keyword classified as
\* the first domain of the enumeration
C23_Witness ==
    \E r \in Reqs :
        /\ Analyzed(r)
        /\ \A d \in 1..Len(Domains) : KeywordHits(reqs[r].text)[d] = 0
        /\ reqs[r].context.domain = "technical"

\* C24: a run of LangGraphSummaryService.summarize whose workflow finished
\* without an error returns a result whose strategy is the strategy the
\* optimizer selected for the request and whose cached flag is true exactly on
\* a cache hit, with the summary, cost, model and token count of the workflow.
C24_ReturnsWorkflowResult ==
    \A r \in Reqs : (Finished(r) /\ ~reqs[r].has_error) =>
        LET q == reqs[r] IN
        /\ q.outcome.kind = "returned"
        /\ q.outcome.result.summary = q.summary
        /\ q.outcome.result.strategy = q.optimization.strategy_used
        /\ q.outcome.result.cached <=> (q.has_cached /\ q.cached)
        /\ q.outcome.result.model_used = q.model
        /\ q.outcome.result.tokens_used = q.tokens_used

\* C24, the state in which it fails: a miss answered by the provider, the
\* summary inserted into the cache, and the call raising HTTP 500
C24_Witness ==
    \E r \in Reqs :
        /\ Finished(r) /\ ~reqs[r].has_error
        /\ reqs[r].optimization.strategy_used = "template"
        /\ reqs[r].provider_calls = 1 /\ reqs[r].inserted = 1
        /\ reqs[r].summary \in Replies
        /\ reqs[r].outcome.kind = "raised"
        /\ reqs[r].outcome.status = 500
        /\ reqs[r].outcome.detail =
                "Summarization failed: 'OptimizationResult' object has no attribute 'get'"

\* a run of SimplifiedSmartSummarizer.summarize_stream that has ended
SmartStream(r) ==
    /\ reqs[r].service = "llm_stream"
    /\ reqs[r].pc = "done"
    /\ reqs[r].out # << >>
    /\ reqs[r].out[1] = StageEvent("analyzing")

\* the stage events in their order, up to the summary words
StageOrder ==
    <<StageEvent("analyzing"), StageEvent("analysis_complete"),
      StageEvent("extracting"), StageEvent("points_extracted"),
      StageEvent("summarizing")>>

\* a stream that broke off after some of the stages with an error event
ErrorEnding(out) ==
    \E n \in 1..Len(StageOrder) :
        out = SubSeq(StageOrder, 1, n) \o <<StageEvent("error"), Done>>

\* C29: a run of SimplifiedSmartSummarizer.summarize_stream emits analyzing,
\* analysis_complete, extracting, points_extracted, summarizing, the summary
\* words and complete in this order; when a step has failed an error event
\* takes the place of the remaining stages; the last fragment, and no other,
\* is 'data: [DONE]'.
C29_StageOrder ==
    \A r \in Reqs : SmartStream(r) =>
        LET out == reqs[r].out IN
        /\ out[Len(out)] = Done
        /\ \A i \in 1..(Len(out) - 1) : out[i] # Done
        /\ IF reqs[r].failed # ""
           THEN ErrorEnding(out)
           ELSE \/ ErrorEnding(out)
                \/ out = StageOrder \o WordFragments(reqs[r].summary)
                            \o <<StageEvent("complete"), Done>>

\* C29, the state in which it fails: the provider refused the key in a step
\* and the stream went through every stage to complete, without an error event
C29_Witness ==
    \E r \in Reqs :
        /\ SmartStream(r)
        /\ reqs[r].failed = "authentication"
        /\ reqs[r].provider_calls = 3
        /\ \A i \in 1..Len(reqs[r].out) : reqs[r].out[i] # StageEvent("error")
        /\ reqs[r].out[Len(reqs[r].out) - 1] = StageEvent("complete")

\* whether the string s contains the string part
Contains(s, part) ==
    \E i \in 1..(Len(s) - Len(part) + 1) : SubSeq(s, i, i + Len(part) - 1) = part

\* C30: when the provider call of generate_summary fails, the step leaves the
\* cache and its index as they are and records no summary, and summarize ends
\* with an HTTP 500 error whose detail contains the provider's message, the
\* request having inserted nothing.
C30_ProviderFailure ==
    [][\A r \in Reqs :
        /\ (reqs[r].pc = "ainvoke" /\ reqs'[r].has_error) =>
                /\ text_cache' = text_cache
                /\ index' = index
                /\ ~reqs'[r].has_summary
                /\ reqs'[r].inserted = 0
        /\ (reqs[r].pc = "finish" /\ reqs[r].has_error
                /\ reqs'[r].pc = "done") =>
                /\ text_cache' = text_cache
                /\ index' = index
                /\ ~reqs'[r].has_summary
                /\ reqs'[r].inserted = 0
                /\ reqs'[r].outcome.kind = "raised"
                /\ reqs'[r].outcome.exc = "HTTPException"
                /\ reqs'[r].outcome.status = 500
                /\ Contains(reqs'[r].outcome.detail, reqs[r].error)]_vars

\* C30 witness: a request whose provider call failed has ended in HTTP 500
\* while the cache holds what it held at the start, one seeded entry
C30_Witness ==
    \E r \in Reqs :
        /\ reqs[r].service = "graph"
        /\ reqs[r].pc = "done"
        /\ reqs[r].has_error /\ reqs[r].error = ProviderError
        /\ reqs[r].provider_calls = 1
        /\ reqs[r].outcome.status = 500
        /\ reqs[r].outcome.detail = "Summarization failed: 500: provider error"
        /\ text_cache = SeedCache.text_cache
        /\ index = SeedCache.index

----------------------------------------------------------------------------
(* Properties of the ContextOptimizer, checked under SpecCache *)

\* the score of cache entry i against a text, straight from the embeddings
EntryScore(t, i) == InnerProduct(encode(t), encode(text_cache[i].text))

\* some cache entry scores at least p/q, resp. more than p/q, against the text
SomeEntryAtLeast(t, f) ==
    \E i \in 1..Len(text_cache) : f[2] * EntryScore(t, i) >= f[1] * ScoreUnit
SomeEntryAbove(t, f) ==
    \E i \in 1..Len(text_cache) : f[2] * EntryScore(t, i) > f[1] * ScoreUnit

Optimized == last.op = "optimize"

\* C4: whenever the cache holds an entry whose similarity to the input text is
\* at least 0.95, optimize_context selects cache_hit with an empty prompt, zero
\* expected tokens and zero cost, whatever the token count, domain or budget.
C4_CacheHitFirst ==
    (Optimized /\ SomeEntryAtLeast(last.text, HitThreshold)) =>
        /\ last.optimization.strategy_used = "cache_hit"
        /\ last.optimization.optimized_prompt = EmptyPrompt
        /\ last.optimization.expected_tokens = 0
        /\ last.optimization.cost_estimate = 0

\* C4 witness: a long text on a tight budget is answered from the cache
C4_Witness ==
    /\ Optimized
    /\ count_tokens(last.text) > TokenThreshold
    /\ last.budget <= BudgetThreshold
    /\ SomeEntryAtLeast(last.text, HitThreshold)
    /\ last.optimization.strategy_used = "cache_hit"

LongNoHit ==
    /\ Optimized
    /\ ~SomeEntryAbove(last.text, HitThreshold)
    /\ count_tokens(last.text) > TokenThreshold

\* C5 as stated: with no cache hit and more than 2000 estimated tokens the
\* strategy reported is chunk when the budget is above 0.005 and compress
\* otherwise, and no other name is reported.
C5_ChunkOrCompress ==
    LongNoHit =>
        last.optimization.strategy_used =
            IF last.budget > BudgetThreshold THEN "chunk" ELSE "compress"

\* C5 amended: with no cache hit and more than 2000 estimated tokens the
\* strategy reported is compress when the budget is at most 0.005; with a
\* larger budget it is chunk for a text of more than 300 words and template
\* for a text of at most 300 words.
C5_ChunkTemplateOrCompress ==
    LongNoHit =>
        last.optimization.strategy_used =
            IF last.budget <= BudgetThreshold THEN "compress"
            ELSE IF WordCount(last.text) > ChunkSize THEN "chunk"
            ELSE "template"

\* C5 witness: a long text of few words on a sufficient budget
C5_Witness ==
    /\ LongNoHit
    /\ last.budget > BudgetThreshold
    /\ WordCount(last.text) <= ChunkSize
    /\ last.optimization.strategy_used = "template"

ShortNoHit ==
    /\ Optimized
    /\ ~SomeEntryAbove(last.text, HitThreshold)
    /\ count_tokens(last.text) <= TokenThreshold

\* C6: with no cache hit and at most 2000 estimated tokens the strategy is
\* shallow_train when some cached text is similar (score >= 0.8) and template
\* when none is; cache_hit and the long-text strategies come first.
C6_ShallowOrTemplate ==
    ShortNoHit =>
        /\ last.optimization.strategy_used =
            IF SomeEntryAtLeast(last.text, DefaultThreshold)
            THEN "shallow_train" ELSE "template"
        /\ (last.found.result # << >>) = SomeEntryAtLeast(last.text, DefaultThreshold)

\* C6 witness: the best cached text scores float32(0.95), which is below 0.95
C6_Witness ==
    /\ ShortNoHit
    /\ last.found.result # << >>
    /\ last.found.result[1].similarity = F32Below(HitThreshold)
    /\ last.optimization.strategy_used = "shallow_train"

JustEvicted == last.op = "add" /\ last.evicted

\* the answer of find_similar_texts, now, to the text of cache entry i
AnswerFor(i) ==
    find_similar_texts(text_cache, index, text_cache[i].text, DefaultThreshold).result

\* cache entry i is among the results of a search for its own text
Findable(i) ==
    LET r == AnswerFor(i) IN
    \E j \in 1..Len(r) :
        /\ r[j].text = text_cache[i].text
        /\ r[j].summary = text_cache[i].summary
        /\ r[j].strategy = text_cache[i].strategy

\* the number of other cache entries whose text scores, against the text of
\* entry i, at least what that text scores against itself
Rivals(i) ==
    Cardinality({j \in 1..Len(text_cache) :
                    j # i /\ EntryScore(text_cache[i].text, j)
                                >= EntryScore(text_cache[i].text, i)})

\* C7 as stated: once add_to_cache has returned the cache holds at most 1000
\* entries, and every entry that survived an eviction is found by
\* find_similar_texts when queried with its own text.
C7_EverySurvivorFound ==
    /\ Len(text_cache) <= CacheLimit
    /\ JustEvicted => \A i \in 1..Len(text_cache) : Findable(i)

\* C7 amended: once add_to_cache has returned the cache holds at most 1000
\* entries, and every entry that survived an eviction is found by
\* find_similar_texts queried with its own text provided fewer than 10 other
\* cached entries score at least as high against that text; in every case the
\* first result scores as high as the entry itself.
C7_SurvivorFoundAmongTen ==
    /\ Len(text_cache) <= CacheLimit
    /\ JustEvicted =>
        \A i \in 1..Len(text_cache) :
            LET r == AnswerFor(i)
                own == InnerProduct(encode(text_cache[i].text), encode(text_cache[i].text))
            IN  /\ r # << >>
                /\ r[1].similarity >= own
                /\ \/ \E j \in 1..Len(r) :
                        /\ r[j].text = text_cache[i].text
                        /\ r[j].summary = text_cache[i].summary
                        /\ r[j].strategy = text_cache[i].strategy
                   \/ Rivals(i) >= TopK

\* C7 witness: after an eviction the oldest survivor and the entry just
\* inserted are both found
C7_Witness ==
    /\ JustEvicted
    /\ Len(text_cache) = KeepCount
    /\ last.text = T("L")
    /\ Findable(1)
    /\ Findable(Len(text_cache))

\* C8: when an insert pushes the entry count above the ceiling, exactly the
\* most recent 800 entries survive, the inserted entry last, in their order of
\* insertion, and the rebuilt index holds their embeddings in that order.
C8_EvictionKeepsNewestInOrder ==
    [][(last'.op = "add" /\ Len(text_cache) + 1 > CacheLimit) =>
        LET dropped == Len(text_cache) + 1 - KeepCount IN
        /\ Len(text_cache') = KeepCount
        /\ \A i \in 1..(KeepCount - 1) : text_cache'[i] = text_cache[i + dropped]
        /\ text_cache'[KeepCount].text = last'.text
        /\ Len(index') = KeepCount
        /\ \A i \in 1..KeepCount : index'[i] = [vec |-> text_cache'[i].text]
      ]_vars

\* C8 witness: an insert into the full cache has evicted
C8_Witness ==
    /\ JustEvicted
    /\ Len(text_cache) = KeepCount
    /\ text_cache[KeepCount].text = last.text
    /\ text_cache[1].text = Filler(CacheLimit + 2 - KeepCount)

\* C9: find_similar_texts on an empty cache returns the empty list without
\* consulting the embedding model or the index, and optimize_context on an
\* empty cache selects neither cache_hit nor shallow_train.
C9_EmptyCache ==
    (text_cache = << >> /\ last.op \in {"find", "optimize"}) =>
        /\ last.found.result = << >>
        /\ ~last.found.encoded
        /\ ~last.found.searched
        /\ Optimized =>
            last.optimization.strategy_used \in {"chunk", "compress", "template"}

\* C9 witness: a lookup on the empty cache
C9_Witness ==
    /\ text_cache = << >>
    /\ last.op = "find"
    /\ last.found.result = << >>

\* C10: find_similar_texts returns at most 10 results, each a current cache
\* entry with its own score, each score at or above the threshold, in order of
\* non-increasing score, the first being the best score in the cache.
C10_TopTenBestFirst ==
    last.op = "find" =>
        LET r == last.found.result IN
        /\ Len(r) <= TopK
        /\ \A j \in 1..Len(r) :
            /\ \E i \in 1..Len(text_cache) :
                /\ text_cache[i].text = r[j].text
                /\ text_cache[i].summary = r[j].summary
                /\ text_cache[i].strategy = r[j].strategy
                /\ EntryScore(last.text, i) = r[j].similarity
            /\ last.threshold[2] * r[j].similarity >= last.threshold[1] * ScoreUnit
        /\ \A j \in 1..(Len(r) - 1) : r[j].similarity >= r[j + 1].similarity
        /\ (r # << >>) = SomeEntryAtLeast(last.text, last.threshold)
        /\ r # << >> =>
            \A i \in 1..Len(text_cache) : EntryScore(last.text, i) <= r[1].similarity

\* C10 witness: ten results, the best first and a lower score last
C10_Witness ==
    /\ last.op = "find"
    /\ Len(last.found.result) = TopK
    /\ Len(text_cache) > TopK
    /\ last.found.result[1].similarity > last.found.result[TopK].similarity

\* C26: for a text of more than 300 words _chunk_strategy puts the first
\* min(3, number of 300-word windows) windows into the prompt and announces as
\* many sections as the prompt contains; for a text of at most 300 words it
\* returns the template strategy.
C26_ChunkSections ==
    (last.op = "chunk") =>
        LET context == SummaryContext(last.text, last.budget)
            prompt == last.optimization.optimized_prompt
        IN  IF WordCount(last.text) > 300
            THEN /\ last.optimization.strategy_used = "chunk"
                 /\ prompt.sections = Min(3, ChunkCount(WordCount(last.text)))
                 /\ prompt.announced = prompt.sections
            ELSE last.optimization = _template_strategy(context)

\* C26, the state in which it fails: a text of five windows, three of them in
\* the prompt, five announced
C26_Witness ==
    /\ last.op = "chunk"
    /\ ChunkCount(WordCount(last.text)) = 5
    /\ last.optimization.optimized_prompt.sections = 3
    /\ last.optimization.optimized_prompt.announced = 5

====
